---- MODULE Spec2Model ----
(***************************************************************************)
(* State-machine model of the heating monitor (main.py), its circuit       *)
(* registry and aggregator (src/sensors/heating_sensors.py), the alert     *)
(* cooldown gate (src/utils/alerts.py) and the time-series store client    *)
(* (src/database/influxdb_client.py).                                      *)
(*                                                                         *)
(* The specifications share the variables:                                 *)
(*   Spec       main() -> HeizungsMonitor() -> run() up to the decision    *)
(*              taken on the result of initialize() (main.py:253-257).     *)
(*   LoopSpec   the body of run() from the point where initialize() has    *)
(*              returned True: run loop, monitoring cycle, cleanup.        *)
(*   FairLoopSpec  LoopSpec for one registry, with weak fairness of the    *)
(*              control flow (every call returns).                         *)
(*   GateSpec   an AlertManager driven through process_system_alerts /     *)
(*              send_alert / should_send_alert.                            *)
(*   StatusSpec a HeatingSystemManager driven through get_system_status    *)
(*              (as web_dashboard.py and run_monitoring_cycle drive it).   *)
(*   MetricSpec one direct call of a circuit or registry operation on a    *)
(*              constructed HeatingSystemManager, sensors steady during    *)
(*              the call.                                                  *)
(*                                                                         *)
(* Temperatures are integers in thousandths of a degree Celsius; "None"    *)
(* is Python's None.  Times of the run loop are whole seconds, times of    *)
(* the alert gate whole minutes.                                           *)
(***************************************************************************)
EXTENDS Integers, Sequences, FiniteSets, TLC

VARIABLES
    pc,              \* position of the single control flow of main.py
    env,             \* what the process finds at start (imports, config, store)
    running,         \* HeizungsMonitor.running
    handlers,        \* TRUE once signal.signal(...) has installed signal_handler
    heating_manager, \* [made, circuits]: HeatingSystemManager.heating_circuits
    room_sensor,     \* "None" | "bound" | "released"
    influx_client,   \* NoClient or the HeatingInfluxDBClient object
    initResult,      \* "None" | "True" | "False" : value returned by initialize()
    exitCode,        \* Absent while the process lives, else its exit status
    signals,         \* number of stop signals delivered so far
    stopAt,          \* where the first stop signal was handled: "None" (no signal yet),
                     \* "init", "cycle", "loop" or "cleanup"
    monitoring_interval,
    cycle,           \* per-cycle locals of run_monitoring_cycle
    loopv,           \* locals of run(): cycle_duration, sleep_time, and counters
    events,          \* log of observable effects of the current/last cycle
    last_alerts,     \* AlertManager.last_alerts
    now,             \* wall clock read by should_send_alert (minutes)
    gate,            \* history of the AlertManager calls
    mgr,             \* progress and accumulators of get_system_status
    call             \* the last direct call of a circuit/registry operation: its
                     \* arguments, the sensor answers it met, and its result

vars == <<pc, env, call, running, handlers, heating_manager, room_sensor, influx_client,
          initResult, exitCode, signals, stopAt, monitoring_interval, cycle,
          loopv, events, last_alerts, now, gate, mgr>>

\* Python's None for names and objects, and for numbers (a value no
\* temperature, percentage or status can take).
None   == "None"
Absent == -999999

(***************************************************************************)
(* Bounds                                                                  *)
(***************************************************************************)
MaxSignals  == 2   \* stop signals delivered to the process
MaxCycles   == 2   \* monitoring cycles started
MaxInterval == 2   \* largest MONITORING_INTERVAL (seconds)
MaxDuration == 3   \* longest monitoring cycle (seconds)
MaxTicks    == 4   \* advances of the alert gate's clock
TickMinutes == 15  \* minutes per advance
MaxGateCalls == 3  \* should_send_alert calls recorded
MaxStatusCalls == 2 \* get_system_status calls
MaxNotifyCalls == 2 \* send_alert calls recorded

(***************************************************************************)
(* Circuit configuration document and the circuit registry                 *)
(***************************************************************************)
\* The entries of config/heating_circuits.yaml, in document order.
ConfigEntries ==
    << [name |-> "A", flow_sensor |-> "fA", return_sensor |-> "rA"],
       [name |-> "B", flow_sensor |-> "fB", return_sensor |-> "rB"] >>

\* What open()/yaml.safe_load()/the entry loop can meet.
ConfigKinds == {"ok", "missing", "unparsable", "bad_entry_1", "bad_entry_2"}

\* Sets of DS18B20 ids W1ThermSensor.get_available_sensors can report.
SensorPresence == { {}, {"fA", "rA", "fB"}, {"fA", "rA", "fB", "rB"} }

\* HeatingCircuit.__post_init__ / _initialize_sensors: bind the handles that
\* are present on the bus.
HeatingCircuit(entry, present) ==
    [name          |-> entry.name,
     flow_sensor   |-> IF entry.flow_sensor \in present THEN entry.flow_sensor ELSE None,
     return_sensor |-> IF entry.return_sensor \in present THEN entry.return_sensor ELSE None]

\* Number of entries turned into circuits before the loader stops.
LoadedCount(kind) ==
    CASE kind = "ok"          -> Len(ConfigEntries)
      [] kind = "missing"     -> 0
      [] kind = "unparsable"  -> 0
      [] kind = "bad_entry_1" -> 0
      [] kind = "bad_entry_2" -> 1

\* HeatingSystemManager._load_configuration: every exception is caught and
\* logged inside the loader; the circuits appended so far stay in the list.
\* The result says whether an exception leaves the constructor.
LoadConfiguration(kind, present) ==
    [circuits |-> [i \in 1..LoadedCount(kind) |-> HeatingCircuit(ConfigEntries[i], present)],
     raised   |-> FALSE,
     logged   |-> kind # "ok",
     template |-> kind = "missing"]

\* A configuration is malformed when it cannot be parsed or an entry lacks a field.
Malformed(kind) == kind \in {"unparsable", "bad_entry_1", "bad_entry_2"}

(***************************************************************************)
(* Store client construction                                               *)
(***************************************************************************)
\* Positional parameters HeatingInfluxDBClient.__init__ requires (url, token,
\* org, bucket) and the number of arguments main.py passes.
StoreCtorParams == 4
StoreCtorArgs   == 0

\* Python raises TypeError when required parameters are left unbound.
CallBindsMutant(required, passed) == TRUE
CallBinds(required, passed) == passed >= required

\* HeatingInfluxDBClient.__init__ + _connect for a call that bound its
\* parameters: _connect catches every exception and only resets self.client.
\*   store = "down"      InfluxDBClient(...)/write_api() fails
\*   store = "unhealthy" health() does not report "pass"
\*   store = "up"        connection test passes
StoreClient(store) ==
    CASE store = "up"        -> [made |-> TRUE, client |-> "open", write_api |-> TRUE]
      [] store = "unhealthy" -> [made |-> TRUE, client |-> None,   write_api |-> TRUE]
      [] store = "down"      -> [made |-> TRUE, client |-> None,   write_api |-> FALSE]

\* self.influx_client = None (main.py:105)
NoClient == [made |-> FALSE, client |-> None, write_api |-> FALSE]

StoreStates == {"up", "unhealthy", "down"}

\* Methods HeatingInfluxDBClient defines.
StoreMethods == {"write_heating_circuit_data", "write_heating_room_data",
                 "write_system_status", "test_connection", "close"}

(***************************************************************************)
(* HeatingCircuit: readings and derived metrics (heating_sensors.py)       *)
(***************************************************************************)
\* Nearest multiple of q to m (Python round(): ties go to the even multiple).
RoundTo(m, q) ==
    LET lo == (m \div q) * q
        r  == m - lo
    IN  IF 2 * r < q THEN lo
        ELSE IF 2 * r > q THEN lo + q
        ELSE IF (lo \div q) % 2 = 0 THEN lo ELSE lo + q

\* round(x, 2) on thousandths of a degree.
Round2(m) == RoundTo(m, 10)

\* What the two DS18B20 probes of a circuit answer to one read_temperatures():
\* a raw temperature or ReadFail (get_temperature() raises).
ReadFail  == -888888
RawFlow   == {25004, 45003, 85000, ReadFail}
RawReturn == {23001, 30001, 44000, ReadFail}
RawPairs  == [flow : RawFlow, ret : RawReturn]

\* HeatingCircuit.read_temperatures: each side is None when its handle is
\* unbound or its read raises; the other side is still reported.
ReadTemperatures(c, raw) ==
    [flow |-> IF c.flow_sensor = None \/ raw.flow = ReadFail THEN Absent ELSE Round2(raw.flow),
     ret  |-> IF c.return_sensor = None \/ raw.ret = ReadFail THEN Absent ELSE Round2(raw.ret)]

\* HeatingCircuit.calculate_temperature_difference (reads the sensors itself).
CalculateTemperatureDifference(c, raw) ==
    LET t == ReadTemperatures(c, raw) IN
      IF t.flow # Absent /\ t.ret # Absent THEN Round2(t.flow - t.ret) ELSE Absent

\* HeatingCircuit.is_active
IsActiveMutant(c, raw) ==
    LET diff == CalculateTemperatureDifference(c, raw) IN diff # Absent /\ diff >= 2000

IsActive(c, raw) ==
    LET diff == CalculateTemperatureDifference(c, raw) IN diff # Absent /\ diff > 2000

\* HeatingCircuit.get_efficiency_rating
GetEfficiencyRating(c, raw) ==
    LET diff == CalculateTemperatureDifference(c, raw) IN
      IF diff = Absent THEN None
      ELSE IF diff >= 15000 THEN "sehr_gut"
      ELSE IF diff >= 10000 THEN "gut"
      ELSE IF diff >= 5000 THEN "befriedigend"
      ELSE "schlecht"

\* HeatingCircuit.is_available
IsAvailableMutant(c) == c.flow_sensor # None
IsAvailable(c) == c.flow_sensor # None /\ c.return_sensor # None

\* HeatingCircuit.get_status: four successive sensor reads r1..r4.
GetStatus(c, r1, r2, r3, r4) ==
    [name                   |-> c.name,
     flow_temperature       |-> ReadTemperatures(c, r1).flow,
     return_temperature     |-> ReadTemperatures(c, r1).ret,
     temperature_difference |-> CalculateTemperatureDifference(c, r2),
     is_active              |-> IsActive(c, r3),
     efficiency_rating      |-> GetEfficiencyRating(c, r4),
     sensors_available      |-> IsAvailable(c)]

(***************************************************************************)
(* HeatingSystemManager: aggregation (heating_sensors.py)                  *)
(***************************************************************************)
\* Alert thresholds of _check_alerts, in thousandths of a degree.
OverheatLimit   == 80000
LowDiffLimit    == 3000
WarmFlowLimit   == 30000

\* One iteration of the loop in _check_alerts: r1 is the read_temperatures()
\* of line 323, r2 the read made by calculate_temperature_difference().
CircuitAlertsMutant(c, r1, r2) ==
    LET flow_temp == ReadTemperatures(c, r1).flow
        diff      == CalculateTemperatureDifference(c, r2)
    IN  (IF flow_temp # Absent /\ flow_temp > OverheatLimit
           THEN << [type |-> "kritisch", circuit |-> c.name,
                    message |-> <<"Ueberhitzung: Vorlauf", flow_temp>>] >>
           ELSE << >>)
        \o
        (IF diff # Absent /\ diff < LowDiffLimit
           THEN << [type |-> "warnung", circuit |-> c.name,
                    message |-> <<"Geringe Effizienz: nur", diff>>] >>
           ELSE << >>)
        \o
        (IF ~IsAvailable(c)
           THEN << [type |-> "fehler", circuit |-> c.name,
                    message |-> <<"Sensor-Ausfall erkannt">>] >>
           ELSE << >>)

CircuitAlerts(c, r1, r2) ==
    LET flow_temp == ReadTemperatures(c, r1).flow
        diff      == CalculateTemperatureDifference(c, r2)
    IN  (IF flow_temp # Absent /\ flow_temp > OverheatLimit
           THEN << [type |-> "kritisch", circuit |-> c.name,
                    message |-> <<"Ueberhitzung: Vorlauf", flow_temp>>] >>
           ELSE << >>)
        \o
        (IF diff # Absent /\ diff < LowDiffLimit /\ flow_temp # Absent /\ flow_temp > WarmFlowLimit
           THEN << [type |-> "warnung", circuit |-> c.name,
                    message |-> <<"Geringe Effizienz: nur", diff>>] >>
           ELSE << >>)
        \o
        (IF ~IsAvailable(c)
           THEN << [type |-> "fehler", circuit |-> c.name,
                    message |-> <<"Sensor-Ausfall erkannt">>] >>
           ELSE << >>)

\* Nearest multiple of q to the rational n/d (d > 0), ties to even.
RoundRat(n, d, q) ==
    LET lo == (n \div (d * q)) * q
        r  == n - lo * d
    IN  IF 2 * r < q * d THEN lo
        ELSE IF 2 * r > q * d THEN lo + q
        ELSE IF (lo \div q) % 2 = 0 THEN lo ELSE lo + q

\* The tail of _calculate_system_efficiency for the accumulators total_diff
\* and active_circuits: min(100, max(0, (avg - 5) / 10 * 67 + 33)) rounded to
\* one decimal, in thousandths of a percent.
EfficiencyOfMutant(total_diff, active_circuits) ==
    IF active_circuits = 0 THEN Absent
    ELSE LET n == 67 * (total_diff - 5000 * active_circuits) + 330000 * active_circuits
             d == 10 * active_circuits
         IN  IF n <= 0 THEN 0 ELSE RoundRat(n, d, 100)

EfficiencyOf(total_diff, active_circuits) ==
    IF active_circuits = 0 THEN Absent
    ELSE LET n == 67 * (total_diff - 5000 * active_circuits) + 330000 * active_circuits
             d == 10 * active_circuits
         IN  IF n >= 100000 * d THEN 100000
             ELSE IF n <= 0 THEN 0
             ELSE RoundRat(n, d, 100)

\* Sum of f over 1..Len(s).
RECURSIVE SumTo(_, _)
SumTo(f, n) == IF n = 0 THEN 0 ELSE f[n] + SumTo(f, n - 1)

\* HeatingSystemManager._calculate_system_efficiency, rd[i] being the read
\* made for circuit i.
CalculateSystemEfficiency(circuits, rd) ==
    LET diff(i) == CalculateTemperatureDifference(circuits[i], rd[i])
        act(i)  == diff(i) # Absent /\ diff(i) > 2000
        tot == SumTo([i \in 1..Len(circuits) |-> IF act(i) THEN diff(i) ELSE 0], Len(circuits))
        cnt == SumTo([i \in 1..Len(circuits) |-> IF act(i) THEN 1 ELSE 0], Len(circuits))
    IN  EfficiencyOf(tot, cnt)

RECURSIVE ConcatTo(_, _)
ConcatTo(f, n) == IF n = 0 THEN << >> ELSE ConcatTo(f, n - 1) \o f[n]

\* HeatingSystemManager._check_alerts, r1[i]/r2[i] the two reads for circuit i.
CheckAlerts(circuits, r1, r2) ==
    ConcatTo([i \in 1..Len(circuits) |-> CircuitAlerts(circuits[i], r1[i], r2[i])],
             Len(circuits))

\* all_temperatures[key] = val on a dict kept as the sequence of its items in
\* insertion order: an existing key keeps its place and gets the new value.
DictPut(d, key, val) ==
    IF \E j \in 1..Len(d) : d[j].name = key
      THEN [j \in 1..Len(d) |-> IF d[j].name = key THEN val ELSE d[j]]
      ELSE Append(d, val)

\* HeatingSystemManager.get_all_temperatures: per circuit one read for the
\* temperatures and one more (inside calculate_temperature_difference) for
\* the difference; the dict is keyed by circuit name.
RECURSIVE AllTemperaturesTo(_, _, _, _)
AllTemperaturesTo(circuits, r1, r2, n) ==
    IF n = 0 THEN << >>
    ELSE DictPut(AllTemperaturesTo(circuits, r1, r2, n - 1), circuits[n].name,
                 [name       |-> circuits[n].name,
                  flow       |-> ReadTemperatures(circuits[n], r1[n]).flow,
                  return     |-> ReadTemperatures(circuits[n], r1[n]).ret,
                  difference |-> CalculateTemperatureDifference(circuits[n], r2[n])])

GetAllTemperaturesMutant(circuits, r1, r2) ==
    LET failing == {i \in 1..Len(circuits) : r1[i].flow = ReadFail \/ r1[i].ret = ReadFail}
    IN  AllTemperaturesTo(circuits, r1, r2,
                          IF failing = {} THEN Len(circuits)
                          ELSE (CHOOSE i \in failing : \A j \in failing : i <= j) - 1)

GetAllTemperatures(circuits, r1, r2) == AllTemperaturesTo(circuits, r1, r2, Len(circuits))

\* HeatingSystemManager.get_system_status when every read made for circuit i
\* during the call meets the same sensor values rd[i].
GetSystemStatus(circuits, rd) ==
    LET st == [i \in 1..Len(circuits) |-> GetStatus(circuits[i], rd[i], rd[i], rd[i], rd[i])]
    IN  [total_circuits     |-> Len(circuits),
         available_circuits |-> SumTo([i \in 1..Len(circuits) |->
                                        IF st[i].sensors_available THEN 1 ELSE 0], Len(circuits)),
         active_circuits    |-> SumTo([i \in 1..Len(circuits) |->
                                        IF st[i].is_active THEN 1 ELSE 0], Len(circuits)),
         circuits           |-> st,
         system_efficiency  |-> CalculateSystemEfficiency(circuits, rd),
         alerts             |-> CheckAlerts(circuits, rd, rd)]

(***************************************************************************)
(* Environments                                                            *)
(***************************************************************************)
Envs ==
    [HEATING_AVAILABLE  : BOOLEAN,
     DHT22_AVAILABLE    : BOOLEAN,
     INFLUXDB_AVAILABLE : BOOLEAN,
     config             : ConfigKinds,
     present            : SensorPresence,
     roomCtorOk         : BOOLEAN,
     store              : StoreStates]

\* Environments in which initialize() has got as far as returning True.
LoopEnvs == {e \in Envs : /\ e.HEATING_AVAILABLE /\ e.INFLUXDB_AVAILABLE /\ e.roomCtorOk
                          /\ e.config \in {"ok", "missing", "bad_entry_2"}
                          /\ e.present # {}}

\* Sensor answers the run loop is exercised with, one per circuit.
CycleRawPairs == { [flow |-> 45003, ret |-> 30001], [flow |-> 85000, ret |-> 30001],
                   [flow |-> ReadFail, ret |-> 30001] }
Scenes(n) == [1..n -> CycleRawPairs]

\* What the DHT22 driver is at a read: no library or no device object
\* ("unavailable"), every attempt failing ("failing"), or delivering a
\* plausible sample ("ok").
RoomDrivers == {"unavailable", "failing", "ok"}

\* HeatingRoomSensor.read_sensor_data, in thousandths of a degree / percent:
\* substitute values without a driver, None after three failed attempts,
\* else the sample rounded to one decimal with its dew point.
ReadSensorData(driver) ==
    CASE driver = "unavailable" ->
           [temperature |-> 20000, humidity |-> 50000, dew_point |-> 9300]
      [] driver = "failing" ->
           [temperature |-> Absent, humidity |-> Absent, dew_point |-> Absent]
      [] driver = "ok" ->
           [temperature |-> 21500, humidity |-> 45000, dew_point |-> 9100]

\* Room temperatures check_heating_room_conditions() can report.
RoomTemps == {ReadSensorData(d).temperature : d \in RoomDrivers}

\* room_conditions = {'temperature': None, 'humidity': None, 'dew_point': None}
NoRoomConditions == [temperature |-> Absent, humidity |-> Absent, dew_point |-> Absent]

\* Locals of run_monitoring_cycle before the cycle has set them.
NoStatus == [total_circuits |-> 0, active_circuits |-> 0, system_efficiency |-> Absent,
             alerts |-> << >>]
NoCycle  == [all_temps |-> << >>, system_status |-> NoStatus,
             room_conditions |-> NoRoomConditions, room_driver |-> None]

\* The replacement status of main.py:208-213.
DummyStatus == [total_circuits |-> 0, active_circuits |-> 0, system_efficiency |-> 0,
                alerts |-> << [type |-> "error", circuit |-> None,
                               message |-> <<"Sensor-Fehler">>] >>]

\* The keys of get_system_status() that run_monitoring_cycle reads.
StatusFields(st) == [total_circuits |-> st.total_circuits, active_circuits |-> st.active_circuits,
                     system_efficiency |-> st.system_efficiency, alerts |-> st.alerts]

\* Locals and counters of run().
\* started/completed/failed count the cycles begun, returned, and ended by the
\* outer exception handler; slept is the time spent in time.sleep since the
\* last cycle.
NoLoop   == [cycle_duration |-> Absent, sleep_time |-> Absent, slept |-> 0,
             started |-> 0, completed |-> 0, failed |-> 0]

\* What one cycle has done so far: store calls, logged errors, the status
\* line, the alert lines, the overrun warning, alerts handed to the alert gate.
NoEvents == [writes |-> << >>, errors |-> << >>, statusLine |-> FALSE, alertLines |-> << >>,
             overrun |-> FALSE, gateCalls |-> << >>]

\* Sensor answers get_system_status is exercised with (each read draws its own).
SensorAnswers == { [flow |-> 45003, ret |-> 30001], [flow |-> 45003, ret |-> 44000],
                   [flow |-> 85000, ret |-> 30001], [flow |-> 25004, ret |-> 23001],
                   [flow |-> ReadFail, ret |-> 30001] }

\* Registries get_system_status is exercised on.
StatusEnvs == {e \in Envs : /\ e.HEATING_AVAILABLE /\ e.INFLUXDB_AVAILABLE /\ e.roomCtorOk
                            /\ e.DHT22_AVAILABLE /\ e.store = "up"
                            /\ e.config \in {"ok", "missing", "bad_entry_2"}}

NoCircuitStatus == [name |-> None, flow_temperature |-> Absent, return_temperature |-> Absent,
                    temperature_difference |-> Absent, is_active |-> FALSE,
                    efficiency_rating |-> None, sensors_available |-> FALSE]

\* Progress of one get_system_status() call: the pass it is in, the circuit it
\* is at, its accumulators (of circuit_statuses only the entry appended last is
\* kept, until the next read), the values _check_alerts obtained per circuit
\* (seen), and the alert types the previous call reported (prev).
NoMgr  == [phase |-> "idle", i |-> 0, calls |-> 0,
           active_circuits |-> 0, available_circuits |-> 0, last_status |-> NoCircuitStatus,
           total_diff |-> 0, eff_active |-> 0, system_efficiency |-> Absent,
           alerts |-> << >>, seen |-> << >>, prev |-> {}]

\* No operation has been called directly yet.
NoCall == [op |-> None]

\* Alert keys the gate is exercised with.
AlertKeys == {"k1", "k2"}

\* self.last_alerts = {}: no key has a send time.
NoAlerts == [k \in AlertKeys |-> Absent]
NoGate == << >>

\* self.heating_manager = None (main.py:103)
NoManager == [made |-> FALSE, circuits |-> << >>]

(***************************************************************************)
(* main() and HeizungsMonitor.initialize()                                 *)
(***************************************************************************)
Init ==
    /\ pc = "main"
    /\ env \in Envs
    /\ running = FALSE
    /\ handlers = FALSE
    /\ heating_manager = NoManager
    /\ room_sensor = None
    /\ influx_client = NoClient
    /\ initResult = None
    /\ exitCode = Absent
    /\ signals = 0
    /\ stopAt = None
    /\ monitoring_interval \in 0..MaxInterval
    /\ cycle = NoCycle
    /\ loopv = NoLoop
    /\ events = NoEvents
    /\ last_alerts = NoAlerts
    /\ now = 0
    /\ gate = NoGate
    /\ mgr = NoMgr
    /\ call = NoCall

\* sys.exit(1) in the `except Exception` handler of main().
RuntimeFailureStatus == 1

\* main.py:293-326  module check, then HeizungsMonitor() (main.py:101-110);
\* an exception raised by the constructor (MONITORING_INTERVAL that is not a
\* number) reaches the generic handler of main().
Main ==
    /\ pc = "main"
    /\ IF ~env.HEATING_AVAILABLE \/ ~env.INFLUXDB_AVAILABLE
         THEN /\ pc' = "stopped"
              /\ exitCode' = 1
              /\ UNCHANGED handlers
         ELSE \E raises \in BOOLEAN :
                IF raises
                  THEN /\ pc' = "stopped"
                       /\ exitCode' = RuntimeFailureStatus
                       /\ UNCHANGED handlers
                  ELSE /\ pc' = "initialize"
                       /\ handlers' = TRUE
                       /\ UNCHANGED exitCode
    /\ UNCHANGED <<env, call, running, heating_manager, room_sensor, influx_client, initResult,
                   signals, stopAt, monitoring_interval, cycle, loopv, events,
                   last_alerts, now, gate, mgr>>

\* The part of run() a position belongs to.
Phase(p) ==
    CASE p \in {"initialize", "init_heating", "init_room", "init_influx", "run_check"} -> "init"
      [] p \in {"cycle_read", "cycle_persist", "cycle_persist_status", "cycle_room",
                "cycle_log", "cycle_alerts"} -> "cycle"
      [] p \in {"cycle_end", "loop_head", "sleep"} -> "loop"
      [] OTHER -> "cleanup"

\* main.py:112-115  signal_handler runs between any two steps once installed.
SignalHandler ==
    /\ handlers
    /\ pc # "stopped"
    /\ signals < MaxSignals
    /\ signals' = signals + 1
    /\ running' = FALSE
    /\ stopAt' = IF stopAt = None THEN Phase(pc) ELSE stopAt
    /\ UNCHANGED <<pc, env, call, handlers, heating_manager, room_sensor, influx_client,
                   initResult, exitCode, monitoring_interval, cycle, loopv, events,
                   last_alerts, now, gate, mgr>>

\* main.py:119-129  availability flags.
InitAvailability ==
    /\ pc = "initialize"
    /\ IF ~env.HEATING_AVAILABLE \/ ~env.INFLUXDB_AVAILABLE
         THEN pc' = "run_check" /\ initResult' = "False"
         ELSE pc' = "init_heating" /\ UNCHANGED initResult
    /\ UNCHANGED <<env, call, running, handlers, heating_manager, room_sensor, influx_client,
                   exitCode, signals, stopAt, monitoring_interval, cycle, loopv, events,
                   last_alerts, now, gate, mgr>>

\* main.py:131-138  HeatingSystemManager() and get_circuit_count().
InitHeatingManager ==
    /\ pc = "init_heating"
    /\ LET r == LoadConfiguration(env.config, env.present) IN
         IF r.raised
           THEN /\ pc' = "run_check"
                /\ initResult' = "False"
                /\ UNCHANGED heating_manager
           ELSE /\ pc' = "init_room"
                /\ heating_manager' = [made |-> TRUE, circuits |-> r.circuits]
                /\ UNCHANGED initResult
    /\ UNCHANGED <<env, call, running, handlers, room_sensor, influx_client, exitCode, signals,
                   stopAt, monitoring_interval, cycle, loopv, events, last_alerts, now,
                   gate, mgr>>

\* main.py:140-151  optional room sensor.
InitRoomSensor ==
    /\ pc = "init_room"
    /\ room_sensor' = IF env.DHT22_AVAILABLE /\ env.roomCtorOk THEN "bound" ELSE None
    /\ pc' = "init_influx"
    /\ UNCHANGED <<env, call, running, handlers, heating_manager, influx_client, initResult,
                   exitCode, signals, stopAt, monitoring_interval, cycle, loopv, events,
                   last_alerts, now, gate, mgr>>

\* main.py:153-161  HeatingInfluxDBClient() without arguments.
InitInflux ==
    /\ pc = "init_influx"
    /\ IF CallBinds(StoreCtorParams, StoreCtorArgs)
         THEN /\ influx_client' = StoreClient(env.store)
              /\ initResult' = "True"
         ELSE /\ initResult' = "False"
              /\ UNCHANGED influx_client
    /\ pc' = "run_check"
    /\ UNCHANGED <<env, call, running, handlers, heating_manager, room_sensor, exitCode, signals,
                   stopAt, monitoring_interval, cycle, loopv, events, last_alerts, now,
                   gate, mgr>>

\* main.py:253-257  run(): sys.exit(1) on failure, else self.running = True.
RunCheck ==
    /\ pc = "run_check"
    /\ IF initResult = "True"
         THEN /\ running' = TRUE
              /\ pc' = "loop_head"
              /\ UNCHANGED exitCode
         ELSE /\ exitCode' = 1
              /\ pc' = "stopped"
              /\ UNCHANGED running
    /\ UNCHANGED <<env, call, handlers, heating_manager, room_sensor, influx_client, initResult,
                   signals, stopAt, monitoring_interval, cycle, loopv, events,
                   last_alerts, now, gate, mgr>>

(***************************************************************************)
(* HeizungsMonitor.run(): loop, monitoring cycle, cleanup                  *)
(***************************************************************************)
\* Method names run_monitoring_cycle calls on the store client.
CircuitWriteMethod == "write_circuit_data"
StatusWriteMethod  == "write_system_status"
RoomWriteMethod    == "write_room_conditions"

\* Outcome of calling `method` on the store client: AttributeError when the
\* class has no such method; the write methods return False without a
\* write_api or when the write raises inside them, True otherwise.
StoreCall(client, method, accepts) ==
    IF method \notin StoreMethods THEN "AttributeError"
    ELSE IF ~client.write_api THEN "False"
    ELSE IF accepts THEN "True" ELSE "False"

\* Whether a failed call of `method` leaves an error line in the log: the
\* caller logs an exception that reaches it, the write methods log an
\* exception raised by the write itself, and return False without a word
\* when the client has no write_api.
StoreCallLogged(client, method, accepts) ==
    IF method \notin StoreMethods THEN TRUE
    ELSE IF ~client.write_api THEN FALSE
    ELSE ~accepts

\* State after initialize() has returned True.
LoopInit ==
    /\ pc = "run_check"
    /\ env \in LoopEnvs
    /\ running = FALSE
    /\ handlers = TRUE
    /\ heating_manager = [made |-> TRUE,
                          circuits |-> LoadConfiguration(env.config, env.present).circuits]
    /\ room_sensor = IF env.DHT22_AVAILABLE /\ env.roomCtorOk THEN "bound" ELSE None
    /\ influx_client = StoreClient(env.store)
    /\ initResult = "True"
    /\ exitCode = Absent
    /\ signals = 0
    /\ stopAt = None
    /\ monitoring_interval \in 0..MaxInterval
    /\ cycle = NoCycle
    /\ loopv = NoLoop
    /\ events = NoEvents
    /\ last_alerts = NoAlerts
    /\ now = 0
    /\ gate = NoGate
    /\ mgr = NoMgr
    /\ call = NoCall

\* The condition of `while self.running:`.
LoopConditionMutant(r) == TRUE
LoopCondition(r) == r

\* main.py:260-263  while self.running: cycle_start = time.time(); the cycle begins.
LoopHead ==
    /\ pc = "loop_head"
    /\ IF LoopCondition(running)
         THEN /\ loopv.started < MaxCycles
              /\ pc' = "cycle_read"
              /\ loopv' = [loopv EXCEPT !.started = @ + 1, !.slept = 0,
                                        !.cycle_duration = Absent, !.sleep_time = Absent]
              /\ cycle' = NoCycle
              /\ events' = NoEvents
         ELSE /\ pc' = "cleanup"
              /\ UNCHANGED <<loopv, cycle, events>>
    /\ UNCHANGED <<env, call, running, handlers, heating_manager, room_sensor, influx_client,
                   initResult, exitCode, signals, stopAt, monitoring_interval,
                   last_alerts, now, gate, mgr>>

\* main.py:175-177, 205-213  get_all_temperatures() and get_system_status();
\* an exception leaving either is caught at line 205.
CycleRead ==
    /\ pc = "cycle_read"
    /\ LET cs == heating_manager.circuits IN
       \E fault \in BOOLEAN, s1 \in Scenes(Len(cs)), s2 \in Scenes(Len(cs)) :
         IF fault
           THEN /\ cycle' = [cycle EXCEPT !.system_status = DummyStatus]
                /\ events' = [events EXCEPT !.errors = Append(@, "read")]
                /\ pc' = "cycle_room"
           ELSE /\ cycle' = [cycle EXCEPT
                               !.all_temps = GetAllTemperatures(cs, s1, s1),
                               !.system_status = StatusFields(GetSystemStatus(cs, s2))]
                /\ pc' = "cycle_persist"
                /\ UNCHANGED events
    /\ UNCHANGED <<env, call, running, handlers, heating_manager, room_sensor, influx_client,
                   initResult, exitCode, signals, stopAt, monitoring_interval, loopv,
                   last_alerts, now, gate, mgr>>

\* The store calls of the loop over all_temps.items(): one per circuit with
\* both temperatures present, each in its own try/except.
RECURSIVE CircuitWrites(_, _, _, _)
CircuitWrites(temps, client, accepts, n) ==
    IF n = 0 THEN << >>
    ELSE CircuitWrites(temps, client, accepts, n - 1) \o
         (IF temps[n].flow # Absent /\ temps[n].return # Absent
            THEN << [method |-> CircuitWriteMethod, circuit |-> temps[n].name,
                     result |-> StoreCall(client, CircuitWriteMethod, accepts),
                     logged |-> StoreCallLogged(client, CircuitWriteMethod, accepts)] >>
            ELSE << >>)

\* main.py:179-191, 205-213  per-circuit writes; an exception raised outside
\* the inner try (get_circuit_by_name) lands in the handler of line 205.
CyclePersistCircuits ==
    /\ pc = "cycle_persist"
    /\ \E fault \in BOOLEAN, accepts \in BOOLEAN :
         IF fault
           THEN /\ cycle' = [cycle EXCEPT !.system_status = DummyStatus, !.all_temps = << >>]
                /\ events' = [events EXCEPT !.errors = Append(@, "read")]
                /\ pc' = "cycle_room"
           ELSE LET ws == CircuitWrites(cycle.all_temps, influx_client, accepts,
                                        Len(cycle.all_temps))
                IN  /\ events' = [events EXCEPT
                                    !.writes = @ \o ws,
                                    !.errors = @ \o SelectSeq(
                                                  [i \in 1..Len(ws) |->
                                                     IF ws[i].result = "AttributeError"
                                                       THEN "circuit_write" ELSE "none"],
                                                  LAMBDA e : e = "circuit_write")]
                    /\ cycle' = [cycle EXCEPT !.all_temps = << >>]
                    /\ pc' = "cycle_persist_status"
    /\ UNCHANGED <<env, call, running, handlers, heating_manager, room_sensor, influx_client,
                   initResult, exitCode, signals, stopAt, monitoring_interval, loopv,
                   last_alerts, now, gate, mgr>>

\* main.py:193-203  write_system_status(...) in its own try/except.
CyclePersistStatus ==
    /\ pc = "cycle_persist_status"
    /\ \E accepts \in BOOLEAN :
         LET res == StoreCall(influx_client, StatusWriteMethod, accepts) IN
           events' = [events EXCEPT
                        !.writes = Append(@, [method |-> StatusWriteMethod, circuit |-> None,
                                              result |-> res,
                                              logged |-> StoreCallLogged(influx_client,
                                                            StatusWriteMethod, accepts)]),
                        !.errors = IF res = "AttributeError"
                                     THEN Append(@, "status_write") ELSE @]
    /\ pc' = "cycle_room"
    /\ UNCHANGED <<env, call, running, handlers, heating_manager, room_sensor, influx_client,
                   initResult, exitCode, signals, stopAt, monitoring_interval, cycle, loopv,
                   last_alerts, now, gate, mgr>>

\* main.py:215-231  optional room sensor; any exception is caught at line 230.
CycleRoom ==
    /\ pc = "cycle_room"
    /\ IF room_sensor = "bound"
         THEN \E fault \in BOOLEAN, driver \in RoomDrivers, accepts \in BOOLEAN :
                IF fault
                  THEN /\ events' = [events EXCEPT !.errors = Append(@, "room")]
                       /\ UNCHANGED cycle
                  ELSE LET res == StoreCall(influx_client, RoomWriteMethod, accepts) IN
                       /\ cycle' = [cycle EXCEPT !.room_conditions = ReadSensorData(driver),
                                                  !.room_driver = driver]
                       /\ events' =
                            IF ReadSensorData(driver).temperature # Absent
                              THEN [events EXCEPT
                                      !.writes = Append(@, [method |-> RoomWriteMethod,
                                                            circuit |-> None, result |-> res,
                                                            logged |-> StoreCallLogged(
                                                               influx_client, RoomWriteMethod,
                                                               accepts)]),
                                      !.errors = IF res = "AttributeError"
                                                   THEN Append(@, "room") ELSE @]
                              ELSE events
         ELSE UNCHANGED <<cycle, events>>
    /\ pc' = "cycle_log"
    /\ UNCHANGED <<env, call, running, handlers, heating_manager, room_sensor, influx_client,
                   initResult, exitCode, signals, stopAt, monitoring_interval, loopv,
                   last_alerts, now, gate, mgr>>

\* Where control goes after the handler of main.py:247-249 ("Nicht beenden -
\* versuche weiter"): the cycle returns to run().
CycleErrorNextMutant == "cleanup"
CycleErrorNext == "cycle_end"

\* format(efficiency, ".1f") raises TypeError on None.
FormatRaises(x) == x = Absent

\* main.py:233-240, 247-249  status line; an exception here (or anywhere else
\* in the cycle) is caught by the outer handler, which ends the cycle.
CycleStatusLog ==
    /\ pc = "cycle_log"
    /\ \E fault \in BOOLEAN :
         IF fault \/ FormatRaises(cycle.system_status.system_efficiency)
           THEN /\ events' = [events EXCEPT !.errors = Append(@, "cycle")]
                /\ pc' = CycleErrorNext
           ELSE /\ events' = [events EXCEPT !.statusLine = TRUE]
                /\ pc' = "cycle_alerts"
    /\ UNCHANGED <<env, call, running, handlers, heating_manager, room_sensor, influx_client,
                   initResult, exitCode, signals, stopAt, monitoring_interval, cycle, loopv,
                   last_alerts, now, gate, mgr>>

\* main.py:242-249  one warning line per alert of the status.
CycleAlertsLog ==
    /\ pc = "cycle_alerts"
    /\ \E fault \in BOOLEAN :
         IF fault
           THEN /\ events' = [events EXCEPT !.errors = Append(@, "cycle")]
                /\ pc' = CycleErrorNext
           ELSE /\ events' = [events EXCEPT !.alertLines = cycle.system_status.alerts]
                /\ pc' = "cycle_end"
    /\ UNCHANGED <<env, call, running, handlers, heating_manager, room_sensor, influx_client,
                   initResult, exitCode, signals, stopAt, monitoring_interval, cycle, loopv,
                   last_alerts, now, gate, mgr>>

Max(a, b) == IF a >= b THEN a ELSE b

\* sleep_time = max(0, self.monitoring_interval - cycle_duration)
SleepTimeMutant(interval, duration) == interval - duration
SleepTime(interval, duration) == Max(0, interval - duration)

\* main.py:265-273  run_monitoring_cycle() has returned (its locals and the
\* record of what it did are dropped); the elapsed time is measured and the
\* loop either sleeps or logs the overrun.
CycleTiming ==
    /\ pc = "cycle_end"
    /\ \E d \in 0..MaxDuration :
         LET st == SleepTime(monitoring_interval, d) IN
           /\ loopv' = [loopv EXCEPT
                          !.cycle_duration = d, !.sleep_time = st,
                          !.completed = @ + 1,
                          !.failed = IF \E i \in 1..Len(events.errors) : events.errors[i] = "cycle"
                                       THEN @ + 1 ELSE @]
           /\ IF st > 0
                THEN pc' = "sleep" /\ events' = NoEvents
                ELSE pc' = "loop_head" /\ events' = [NoEvents EXCEPT !.overrun = TRUE]
    /\ cycle' = NoCycle
    /\ UNCHANGED <<env, call, running, handlers, heating_manager, room_sensor, influx_client,
                   initResult, exitCode, signals, stopAt, monitoring_interval,
                   last_alerts, now, gate, mgr>>

\* main.py:270  time.sleep(sleep_time) returns.
Sleep ==
    /\ pc = "sleep"
    /\ loopv' = [loopv EXCEPT !.slept = loopv.sleep_time]
    /\ pc' = "loop_head"
    /\ UNCHANGED <<env, call, running, handlers, heating_manager, room_sensor, influx_client,
                   initResult, exitCode, signals, stopAt, monitoring_interval, cycle, events,
                   last_alerts, now, gate, mgr>>

\* main.py:278-291  finally: cleanup(); run() and main() return.
Cleanup ==
    /\ pc = "cleanup"
    /\ room_sensor' = IF room_sensor = "bound" THEN "released" ELSE room_sensor
    /\ influx_client' = IF influx_client.made /\ influx_client.client = "open"
                          THEN [influx_client EXCEPT !.client = "closed"]
                          ELSE influx_client
    /\ pc' = "stopped"
    /\ exitCode' = 0
    /\ UNCHANGED <<env, call, running, handlers, heating_manager, initResult, signals, stopAt,
                   monitoring_interval, cycle, loopv, events, last_alerts, now, gate, mgr>>

LoopNext ==
    \/ RunCheck
    \/ SignalHandler
    \/ LoopHead
    \/ CycleRead
    \/ CyclePersistCircuits
    \/ CyclePersistStatus
    \/ CycleRoom
    \/ CycleStatusLog
    \/ CycleAlertsLog
    \/ CycleTiming
    \/ Sleep
    \/ Cleanup

LoopSpec == LoopInit /\ [][LoopNext]_vars

\* Every call the loop makes returns and the interpreter keeps executing the
\* single control flow; signals may or may not arrive.
LoopStep ==
    \/ RunCheck \/ LoopHead \/ CycleRead \/ CyclePersistCircuits \/ CyclePersistStatus
    \/ CycleRoom \/ CycleStatusLog \/ CycleAlertsLog \/ CycleTiming \/ Sleep \/ Cleanup

\* The run loop started with the complete registry and the default wiring;
\* the room sensor and the store vary.
FairLoopInit ==
    /\ LoopInit
    /\ env.config = "ok"
    /\ env.present = {"fA", "rA", "fB"}
    /\ monitoring_interval = MaxInterval

FairLoopSpec == FairLoopInit /\ [][LoopNext]_vars /\ WF_vars(LoopStep)

(***************************************************************************)
(* HeatingSystemManager.get_system_status(), read by read                  *)
(***************************************************************************)
StatusInit ==
    /\ pc = "status"
    /\ env \in StatusEnvs
    /\ running = FALSE
    /\ handlers = FALSE
    /\ heating_manager = [made |-> TRUE,
                          circuits |-> LoadConfiguration(env.config, env.present).circuits]
    /\ room_sensor = None
    /\ influx_client = NoClient
    /\ initResult = None
    /\ exitCode = Absent
    /\ signals = 0
    /\ stopAt = None
    /\ monitoring_interval = 0
    /\ cycle = NoCycle
    /\ loopv = NoLoop
    /\ events = NoEvents
    /\ last_alerts = NoAlerts
    /\ now = 0
    /\ gate = NoGate
    /\ mgr = NoMgr
    /\ call = NoCall

NumCircuits == Len(heating_manager.circuits)

\* The pass that follows `phase` once the loop over the circuits is through.
NextPhase(phase) ==
    CASE phase = "status"     -> "efficiency"
      [] phase = "efficiency" -> "alerts"
      [] phase = "alerts"     -> "done"

\* heating_sensors.py:259-264  a call begins; with no circuits every loop is
\* empty and the result is complete at once.
StatusBegin ==
    /\ mgr.phase = "idle"
    /\ mgr.calls < MaxStatusCalls
    /\ mgr' = [NoMgr EXCEPT !.phase = IF NumCircuits = 0 THEN "done" ELSE "status",
                            !.i = 1,
                            !.calls = mgr.calls + 1,
                            !.prev = {mgr.alerts[j].type : j \in 1..Len(mgr.alerts)}]
    /\ UNCHANGED <<pc, env, call, running, handlers, heating_manager, room_sensor, influx_client,
                   initResult, exitCode, signals, stopAt, monitoring_interval, cycle, loopv,
                   events, last_alerts, now, gate>>

\* heating_sensors.py:266-274  one iteration of the loop over the circuits:
\* get_status() with its four reads, then the two counters.
StatusCircuit ==
    /\ mgr.phase = "status"
    /\ \E r1 \in SensorAnswers, r2 \in SensorAnswers, r3 \in SensorAnswers, r4 \in SensorAnswers :
         LET status == GetStatus(heating_manager.circuits[mgr.i], r1, r2, r3, r4) IN
           mgr' = [mgr EXCEPT
                     !.last_status = status,
                     !.active_circuits = IF status.is_active THEN @ + 1 ELSE @,
                     !.available_circuits = IF status.sensors_available THEN @ + 1 ELSE @,
                     !.i = IF mgr.i = NumCircuits THEN 1 ELSE @ + 1,
                     !.phase = IF mgr.i = NumCircuits THEN NextPhase(@) ELSE @]
    /\ UNCHANGED <<pc, env, call, running, handlers, heating_manager, room_sensor, influx_client,
                   initResult, exitCode, signals, stopAt, monitoring_interval, cycle, loopv,
                   events, last_alerts, now, gate>>

\* heating_sensors.py:296-311  one iteration of the loop of
\* _calculate_system_efficiency; after the last one the score is computed.
EfficiencyCircuit ==
    /\ mgr.phase = "efficiency"
    /\ \E r \in SensorAnswers :
         LET diff == CalculateTemperatureDifference(heating_manager.circuits[mgr.i], r)
             act  == diff # Absent /\ diff > 2000
             tot  == IF act THEN mgr.total_diff + diff ELSE mgr.total_diff
             cnt  == IF act THEN mgr.eff_active + 1 ELSE mgr.eff_active
         IN  mgr' = [mgr EXCEPT
                       !.last_status = NoCircuitStatus,
                       !.total_diff = tot,
                       !.eff_active = cnt,
                       !.system_efficiency = IF mgr.i = NumCircuits
                                               THEN EfficiencyOf(tot, cnt) ELSE @,
                       !.i = IF mgr.i = NumCircuits THEN 1 ELSE @ + 1,
                       !.phase = IF mgr.i = NumCircuits THEN NextPhase(@) ELSE @]
    /\ UNCHANGED <<pc, env, call, running, handlers, heating_manager, room_sensor, influx_client,
                   initResult, exitCode, signals, stopAt, monitoring_interval, cycle, loopv,
                   events, last_alerts, now, gate>>

\* heating_sensors.py:322-351  one iteration of the loop of _check_alerts.
AlertsCircuit ==
    /\ mgr.phase = "alerts"
    /\ \E r1 \in SensorAnswers, r2 \in SensorAnswers :
         LET c == heating_manager.circuits[mgr.i] IN
           mgr' = [mgr EXCEPT
                     !.alerts = @ \o CircuitAlerts(c, r1, r2),
                     !.seen = Append(@, [flow |-> ReadTemperatures(c, r1).flow,
                                         diff |-> CalculateTemperatureDifference(c, r2)]),
                     !.i = IF mgr.i = NumCircuits THEN 1 ELSE @ + 1,
                     !.phase = IF mgr.i = NumCircuits THEN NextPhase(@) ELSE @]
    /\ UNCHANGED <<pc, env, call, running, handlers, heating_manager, room_sensor, influx_client,
                   initResult, exitCode, signals, stopAt, monitoring_interval, cycle, loopv,
                   events, last_alerts, now, gate>>

\* heating_sensors.py:276-284  the snapshot is returned to the caller.
StatusReturn ==
    /\ mgr.phase = "done"
    /\ mgr' = [mgr EXCEPT !.phase = "idle"]
    /\ UNCHANGED <<pc, env, call, running, handlers, heating_manager, room_sensor, influx_client,
                   initResult, exitCode, signals, stopAt, monitoring_interval, cycle, loopv,
                   events, last_alerts, now, gate>>

StatusNext ==
    \/ StatusBegin
    \/ StatusCircuit
    \/ EfficiencyCircuit
    \/ AlertsCircuit
    \/ StatusReturn

StatusSpec == StatusInit /\ [][StatusNext]_vars

(***************************************************************************)
(* AlertManager: cooldown gate (alerts.py)                                 *)
(***************************************************************************)
\* self.alert_cooldown = timedelta(minutes=30)
AlertCooldown == 30

\* `alert_key in self.last_alerts and now - last_sent < self.alert_cooldown`
InCooldownMutant(last, t) == last # Absent /\ t - last <= AlertCooldown
InCooldown(last, t) == last # Absent /\ t - last < AlertCooldown

\* alerts.py:51  self.last_alerts[alert_key] = now
RecordSendMutant(last, key, t) == [k \in DOMAIN last |-> IF k = key THEN t ELSE Absent]
RecordSend(last, key, t) == [last EXCEPT ![key] = t]

GateInit ==
    /\ pc = "gate"
    /\ env \in {e \in StatusEnvs : e.config = "ok" /\ e.present = {}}
    /\ running = FALSE
    /\ handlers = FALSE
    /\ heating_manager = NoManager
    /\ room_sensor = None
    /\ influx_client = NoClient
    /\ initResult = None
    /\ exitCode = Absent
    /\ signals = 0
    /\ stopAt = None
    /\ monitoring_interval = 0
    /\ cycle = NoCycle
    /\ loopv = NoLoop
    /\ events = NoEvents
    /\ last_alerts = NoAlerts
    /\ now = 0
    /\ gate = NoGate
    /\ mgr = NoMgr
    /\ call = NoCall

\* Time passes between two calls (datetime.now() grows).
Tick ==
    /\ now < MaxTicks * TickMinutes
    /\ now' = now + TickMinutes
    /\ UNCHANGED <<pc, env, call, running, handlers, heating_manager, room_sensor, influx_client,
                   initResult, exitCode, signals, stopAt, monitoring_interval, cycle, loopv,
                   events, last_alerts, gate, mgr>>

\* alerts.py:42-52  should_send_alert(alert_key); the call and its result are
\* appended to the history.
ShouldSendAlert ==
    /\ Len(gate) < MaxGateCalls
    /\ \E k \in AlertKeys :
         IF InCooldown(last_alerts[k], now)
           THEN /\ gate' = Append(gate, [key |-> k, at |-> now, result |-> FALSE])
                /\ UNCHANGED last_alerts
           ELSE /\ gate' = Append(gate, [key |-> k, at |-> now, result |-> TRUE])
                /\ last_alerts' = RecordSend(last_alerts, k, now)
    /\ UNCHANGED <<pc, env, call, running, handlers, heating_manager, room_sensor, influx_client,
                   initResult, exitCode, signals, stopAt, monitoring_interval, cycle, loopv,
                   events, now, mgr>>

GateNext ==
    \/ Tick
    \/ ShouldSendAlert

GateSpec == GateInit /\ [][GateNext]_vars

(***************************************************************************)
(* AlertManager: send_alert and process_system_alerts (alerts.py)          *)
(***************************************************************************)
\* The three channels in the order send_alert calls them (alerts.py:164-171).
Transports == <<"email", "telegram", "discord">>

\* What one channel does when it is tried: the connection works or raises.
TransportOutcomes == {"ok", "raises"}

\* AlertManager.__init__: per channel, enabled and address/token/webhook set.
NotifyEnvs == [email : BOOLEAN, telegram : BOOLEAN, discord : BOOLEAN]

\* Alerts handed to send_alert as (alert_type, circuit, message).  The two
\* overheat alerts are one condition seen in two cycles with another reading
\* (heating_sensors.py:330 embeds the value in the message).
NotifyAlerts ==
    { [type |-> "kritisch", circuit |-> "Bad", message |-> "Ueberhitzung: Vorlauf 85.0"],
      [type |-> "kritisch", circuit |-> "Bad", message |-> "Ueberhitzung: Vorlauf 86.0"],
      [type |-> "warnung", circuit |-> "Bad_OG", message |-> "Pumpe"],
      [type |-> "warnung", circuit |-> "Bad", message |-> "OG_Pumpe"],
      [type |-> "fehler", circuit |-> "Bad", message |-> "Sensor-Ausfall erkannt"] }

\* Alert dictionaries handed to process_system_alerts; the last one has no
\* 'circuit' entry (main.py:212 builds such an alert).
DictAlerts ==
    NotifyAlerts \cup { [type |-> "kritisch", message |-> "Sensor-Fehler"] }

\* alert.get(field, default)
AlertGet(alert, field, default) ==
    IF field \in DOMAIN alert THEN alert[field] ELSE default

\* alerts.py:181-183
AlertTuple(alert) ==
    [type |-> AlertGet(alert, "type", "info"),
     circuit |-> AlertGet(alert, "circuit", "system"),
     message |-> AlertGet(alert, "message", "Unbekannter Alarm")]

\* alerts.py:152  alert_key = f"{alert_type}_{circuit}_{message}"
AlertKey(a) == a.type \o "_" \o a.circuit \o "_" \o a.message

NotifyKeys == { AlertKey(AlertTuple(a)) : a \in DictAlerts }

\* send_email_alert / send_telegram_alert / send_discord_alert: False at once
\* when the channel is not configured; otherwise the attempt runs inside
\* try/except Exception and yields True or False.
TransportCallMutant(configured, outcome) ==
    IF ~configured
      THEN [attempted |-> FALSE, result |-> FALSE, raised |-> FALSE]
      ELSE [attempted |-> TRUE, result |-> outcome = "ok", raised |-> outcome = "raises"]
TransportCall(configured, outcome) ==
    IF ~configured
      THEN [attempted |-> FALSE, result |-> FALSE, raised |-> FALSE]
      ELSE [attempted |-> TRUE, result |-> outcome = "ok", raised |-> FALSE]

\* The channel calls of send_alert from position i on; an exception leaving a
\* channel call would end send_alert there.
RECURSIVE SendTo(_, _, _, _)
SendTo(i, cfg, outs, acc) ==
    IF i > Len(Transports) \/ acc.raised
      THEN acc
      ELSE LET tr == Transports[i]
               r == TransportCall(cfg[tr], outs[tr])
           IN SendTo(i + 1, cfg, outs,
                     [attempts |-> IF r.attempted
                                     THEN Append(acc.attempts, [transport |-> tr, result |-> r.result])
                                     ELSE acc.attempts,
                      sent_count |-> acc.sent_count + (IF r.result THEN 1 ELSE 0),
                      raised |-> r.raised])

\* alerts.py:150-176  send_alert(alert_type, circuit, message) at time t with
\* the gate map `last`; yields the new map and what the call did.
SendAlertCore(last, t, a, cfg, outs) ==
    LET key == AlertKey(a) IN
    IF InCooldown(last[key], t)
      THEN [last_alerts |-> last, alert |-> a, key |-> key, at |-> t, passed |-> FALSE,
            attempts |-> << >>, sent_count |-> 0, raised |-> FALSE]
      ELSE LET r == SendTo(1, cfg, outs, [attempts |-> << >>, sent_count |-> 0, raised |-> FALSE])
           IN [last_alerts |-> RecordSend(last, key, t), alert |-> a, key |-> key, at |-> t,
               passed |-> TRUE, attempts |-> r.attempts, sent_count |-> r.sent_count,
               raised |-> r.raised]

SendAlertResultMutant(last, t, a, cfg, outs) ==
    LET r == SendAlertCore(last, t, a, cfg, outs)
    IN IF r.passed /\ r.sent_count = 0 THEN [r EXCEPT !.last_alerts = last] ELSE r
SendAlertResult(last, t, a, cfg, outs) == SendAlertCore(last, t, a, cfg, outs)

\* One line of the call history kept for the properties.
GateRecord(r) ==
    [alert |-> r.alert, key |-> r.key, at |-> r.at, result |-> r.passed,
     delivered |-> r.sent_count > 0]

\* alerts.py:186  `if alert_type in ['kritisch', 'critical', 'warnung', 'warning']`
ForwardedMutant(alert_type) ==
    alert_type \in {"kritisch", "critical", "warnung", "warning", "fehler", "error"}
Forwarded(alert_type) == alert_type \in {"kritisch", "critical", "warnung", "warning"}

\* alerts.py:178-187  the loop of process_system_alerts from position i on;
\* acc carries the gate map, the send_alert calls made and whether one raised.
RECURSIVE ProcessTo(_, _, _, _, _, _)
ProcessTo(alerts, i, t, cfg, outs, acc) ==
    IF i > Len(alerts) \/ acc.raised
      THEN acc
      ELSE LET a == AlertTuple(alerts[i]) IN
           IF Forwarded(a.type)
             THEN LET r == SendAlertResult(acc.last_alerts, t, a, cfg, outs)
                  IN ProcessTo(alerts, i + 1, t, cfg, outs,
                               [last_alerts |-> r.last_alerts,
                                calls |-> Append(acc.calls, GateRecord(r)),
                                raised |-> r.raised])
             ELSE ProcessTo(alerts, i + 1, t, cfg, outs, acc)

\* Lists of alert dictionaries a snapshot may carry.
AlertLists ==
    {<< >>} \cup { <<a>> : a \in DictAlerts } \cup { <<a, b>> : a \in DictAlerts, b \in DictAlerts }

\* What the three channels do during one call.
TransportAnswers == [email : TransportOutcomes, telegram : TransportOutcomes, discord : TransportOutcomes]

\* Channel configurations of the manager whose call history is followed.
HistoryEnvs ==
    { [email |-> FALSE, telegram |-> FALSE, discord |-> FALSE],
      [email |-> TRUE, telegram |-> FALSE, discord |-> FALSE],
      [email |-> TRUE, telegram |-> TRUE, discord |-> TRUE] }

NotifyInit ==
    /\ pc = "notify"
    /\ env \in HistoryEnvs
    /\ running = FALSE
    /\ handlers = FALSE
    /\ heating_manager = NoManager
    /\ room_sensor = None
    /\ influx_client = NoClient
    /\ initResult = None
    /\ exitCode = Absent
    /\ signals = 0
    /\ stopAt = None
    /\ monitoring_interval = 0
    /\ cycle = NoCycle
    /\ loopv = NoLoop
    /\ events = NoEvents
    /\ last_alerts = [k \in NotifyKeys |-> Absent]
    /\ now = 0
    /\ gate = NoGate
    /\ mgr = NoMgr
    /\ call = NoCall

\* alerts.py:150-176  one call of send_alert; the call is appended to the
\* history.
SendAlert ==
    /\ Len(gate) < MaxNotifyCalls
    /\ \E a \in NotifyAlerts, outs \in TransportAnswers :
         LET r == SendAlertResult(last_alerts, now, a, env, outs)
         IN /\ last_alerts' = r.last_alerts
            /\ gate' = Append(gate, GateRecord(r))
    /\ UNCHANGED <<pc, env, call, running, handlers, heating_manager, room_sensor, influx_client,
                   initResult, exitCode, signals, stopAt, monitoring_interval, cycle, loopv,
                   events, now, mgr>>

NotifyNext ==
    \/ Tick
    \/ SendAlert

NotifySpec == NotifyInit /\ [][NotifyNext]_vars

\* Gate maps an alert manager may hold before a call at time AlertCooldown:
\* any set of keys sent TickMinutes ago (still cooling down), or every key
\* sent a full cooldown ago.
GateMaps ==
    [NotifyKeys -> {Absent, AlertCooldown - TickMinutes}] \cup { [k \in NotifyKeys |-> 0] }

AlertCallInit ==
    /\ pc = "call"
    /\ env \in NotifyEnvs
    /\ running = FALSE
    /\ handlers = FALSE
    /\ heating_manager = NoManager
    /\ room_sensor = None
    /\ influx_client = NoClient
    /\ initResult = None
    /\ exitCode = Absent
    /\ signals = 0
    /\ stopAt = None
    /\ monitoring_interval = 0
    /\ cycle = NoCycle
    /\ loopv = NoLoop
    /\ events = NoEvents
    /\ last_alerts \in GateMaps
    /\ now = AlertCooldown
    /\ gate = NoGate
    /\ mgr = NoMgr
    /\ call = NoCall

\* alerts.py:150-176  one direct call of send_alert.
CallSendAlert ==
    /\ call = NoCall
    /\ \E a \in NotifyAlerts, outs \in TransportAnswers :
         LET r == SendAlertResult(last_alerts, now, a, env, outs)
         IN /\ last_alerts' = r.last_alerts
            /\ call' = [op |-> "send_alert", alert |-> a,
                        passed |-> r.passed, attempts |-> r.attempts,
                        sent_count |-> r.sent_count, raised |-> r.raised]
    /\ UNCHANGED <<pc, env, running, handlers, heating_manager, room_sensor, influx_client,
                   initResult, exitCode, signals, stopAt, monitoring_interval, cycle, loopv,
                   events, now, gate, mgr>>

\* alerts.py:178-187  one direct call of process_system_alerts.
CallProcessSystemAlerts ==
    /\ call = NoCall
    /\ \E alerts \in AlertLists, outs \in TransportAnswers :
         LET r == ProcessTo(alerts, 1, now, env, outs,
                            [last_alerts |-> last_alerts, calls |-> << >>, raised |-> FALSE])
         IN /\ last_alerts' = r.last_alerts
            /\ call' = [op |-> "process_system_alerts", alerts |-> alerts,
                        calls |-> r.calls, raised |-> r.raised]
    /\ UNCHANGED <<pc, env, running, handlers, heating_manager, room_sensor, influx_client,
                   initResult, exitCode, signals, stopAt, monitoring_interval, cycle, loopv,
                   events, now, gate, mgr>>

AlertCallNext ==
    \/ CallSendAlert
    \/ CallProcessSystemAlerts

AlertCallSpec == AlertCallInit /\ [][AlertCallNext]_vars

(***************************************************************************)
(* Direct calls of the circuit and registry operations                     *)
(***************************************************************************)
\* Sensor answers the operations are called with: differences of 15, 5, -5,
\* 2.04, exactly 2, 55 degrees, and a failing read on either side.
MetricAnswers == { [flow |-> 45003, ret |-> 30001], [flow |-> 35000, ret |-> 30001],
                   [flow |-> 25004, ret |-> 30001], [flow |-> 32044, ret |-> 30001],
                   [flow |-> 25004, ret |-> 23001], [flow |-> 85000, ret |-> 30001],
                   [flow |-> ReadFail, ret |-> 30001], [flow |-> 45003, ret |-> ReadFail] }
MetricScenes(n) == [1..n -> MetricAnswers]

\* circuit_config['name'] is free text: a document may give every entry the
\* name of the first one.
SameNamed(circuits) ==
    [i \in 1..Len(circuits) |-> [circuits[i] EXCEPT !.name = circuits[1].name]]

\* A HeatingSystemManager has been constructed; nothing has been called yet.
MetricInit ==
    /\ pc = "call"
    /\ env \in StatusEnvs
    /\ running = FALSE
    /\ handlers = FALSE
    /\ \E same \in BOOLEAN :
         LET cs == LoadConfiguration(env.config, env.present).circuits IN
           heating_manager = [made |-> TRUE,
                              circuits |-> IF same THEN SameNamed(cs) ELSE cs]
    /\ room_sensor = None
    /\ influx_client = NoClient
    /\ initResult = None
    /\ exitCode = Absent
    /\ signals = 0
    /\ stopAt = None
    /\ monitoring_interval = 0
    /\ cycle = NoCycle
    /\ loopv = NoLoop
    /\ events = NoEvents
    /\ last_alerts = NoAlerts
    /\ now = 0
    /\ gate = NoGate
    /\ mgr = NoMgr
    /\ call = NoCall

\* heating_sensors.py:56-111  read_temperatures(), calculate_temperature_difference()
\* and is_active() of one circuit, the sensors answering `raw` throughout.
CallCircuit ==
    /\ call = NoCall
    /\ \E i \in 1..NumCircuits, raw \in MetricAnswers :
         LET c == heating_manager.circuits[i] IN
           call' = [op |-> "circuit", circuit |-> c, raw |-> raw,
                    temperatures |-> ReadTemperatures(c, raw),
                    difference |-> CalculateTemperatureDifference(c, raw),
                    is_active |-> IsActive(c, raw)]
    /\ UNCHANGED <<pc, env, running, handlers, heating_manager, room_sensor, influx_client,
                   initResult, exitCode, signals, stopAt, monitoring_interval, cycle, loopv,
                   events, last_alerts, now, gate, mgr>>

\* heating_sensors.py:236-257  get_all_temperatures(): r1[i] answers the
\* read_temperatures() of circuit i, r2[i] its calculate_temperature_difference().
CallGetAllTemperatures ==
    /\ call = NoCall
    /\ \E r1 \in MetricScenes(NumCircuits), r2 \in MetricScenes(NumCircuits) :
         call' = [op |-> "get_all_temperatures", r1 |-> r1, r2 |-> r2,
                  result |-> GetAllTemperatures(heating_manager.circuits, r1, r2)]
    /\ UNCHANGED <<pc, env, running, handlers, heating_manager, room_sensor, influx_client,
                   initResult, exitCode, signals, stopAt, monitoring_interval, cycle, loopv,
                   events, last_alerts, now, gate, mgr>>

\* heating_sensors.py:286-311  _calculate_system_efficiency().
CallCalculateSystemEfficiency ==
    /\ call = NoCall
    /\ \E rd \in MetricScenes(NumCircuits) :
         call' = [op |-> "_calculate_system_efficiency", rd |-> rd,
                  result |-> CalculateSystemEfficiency(heating_manager.circuits, rd)]
    /\ UNCHANGED <<pc, env, running, handlers, heating_manager, room_sensor, influx_client,
                   initResult, exitCode, signals, stopAt, monitoring_interval, cycle, loopv,
                   events, last_alerts, now, gate, mgr>>

\* heating_sensors.py:259-284  get_system_status() while the sensors of
\* circuit i keep answering rd[i].
CallGetSystemStatus ==
    /\ call = NoCall
    /\ \E rd \in MetricScenes(NumCircuits) :
         call' = [op |-> "get_system_status", rd |-> rd,
                  result |-> GetSystemStatus(heating_manager.circuits, rd)]
    /\ UNCHANGED <<pc, env, running, handlers, heating_manager, room_sensor, influx_client,
                   initResult, exitCode, signals, stopAt, monitoring_interval, cycle, loopv,
                   events, last_alerts, now, gate, mgr>>

\* influxdb_client.py:258-267  the heating_system_status point; the efficiency
\* field is set only when an efficiency is given.
StatusPoint(total_circuits, active_circuits, system_efficiency) ==
    LET base == [measurement |-> "heating_system_status",
                 total_circuits |-> total_circuits,
                 active_circuits |-> active_circuits,
                 inactive_circuits |-> total_circuits - active_circuits]
    IN IF system_efficiency # Absent
         THEN base @@ [efficiency |-> system_efficiency]
         ELSE base

\* influxdb_client.py:273-279  the heating_alerts point of one alert.
AlertPoint(alert) ==
    [measurement |-> "heating_alerts",
     type |-> IF "type" \in DOMAIN alert THEN alert.type ELSE "unknown",
     circuit |-> IF "circuit" \in DOMAIN alert THEN alert.circuit ELSE "system",
     message |-> IF "message" \in DOMAIN alert THEN alert.message ELSE "",
     active |-> 1]

\* influxdb_client.py:283-288  the point written when no alert is active.
NoAlertPoint ==
    [measurement |-> "heating_alerts", type |-> "status",
     message |-> "System laeuft normal", active |-> 0]

RECURSIVE AlertPoints(_, _)
AlertPoints(alerts, i) ==
    IF i > Len(alerts) THEN << >>
    ELSE <<AlertPoint(alerts[i])>> \o AlertPoints(alerts, i + 1)

\* influxdb_client.py:255-289  the points write_system_status collects;
\* `given` is FALSE when the alerts argument is left at its default None.
StatusPointsMutant(total_circuits, active_circuits, system_efficiency, given, alerts) ==
    <<StatusPoint(total_circuits, active_circuits, system_efficiency)>>
      \o (IF given THEN AlertPoints(alerts, 1) ELSE << >>) \o <<NoAlertPoint>>
StatusPoints(total_circuits, active_circuits, system_efficiency, given, alerts) ==
    <<StatusPoint(total_circuits, active_circuits, system_efficiency)>>
      \o (IF given /\ alerts # << >> THEN AlertPoints(alerts, 1) ELSE <<NoAlertPoint>>)

\* influxdb_client.py:230-298  write_system_status on a client: nothing is
\* handed to the store without a write_api; otherwise the points are handed to
\* write_api.write, whose exception is caught and turned into False.
WriteSystemStatus(client, status, given, accepts) ==
    IF ~client.write_api
      THEN [attempted |-> FALSE, points |-> << >>, result |-> FALSE]
      ELSE [attempted |-> TRUE,
            points |-> StatusPoints(status.total_circuits, status.active_circuits,
                                    status.system_efficiency, given, status.alerts),
            result |-> accepts]

\* One direct call of write_system_status with the snapshot of the registry
\* (sensors of circuit i answering rd[i]) or the stand-in status of main.py:208.
CallWriteSystemStatus ==
    /\ call = NoCall
    /\ \E rd \in MetricScenes(NumCircuits), dummy \in BOOLEAN, store \in StoreStates,
          given \in BOOLEAN, accepts \in BOOLEAN :
         LET status == IF dummy THEN DummyStatus
                       ELSE GetSystemStatus(heating_manager.circuits, rd)
             client == StoreClient(store)
             w == WriteSystemStatus(client, status, given, accepts)
         IN call' = [op |-> "write_system_status", status |-> status, given |-> given,
                     write_api |-> client.write_api, attempted |-> w.attempted,
                     points |-> w.points, result |-> w.result]
    /\ UNCHANGED <<pc, env, running, handlers, heating_manager, room_sensor, influx_client,
                   initResult, exitCode, signals, stopAt, monitoring_interval, cycle, loopv,
                   events, last_alerts, now, gate, mgr>>

MetricNext ==
    \/ CallCircuit
    \/ CallGetAllTemperatures
    \/ CallCalculateSystemEfficiency
    \/ CallGetSystemStatus
    \/ CallWriteSystemStatus

MetricSpec == MetricInit /\ [][MetricNext]_vars

Next ==
    \/ Main
    \/ SignalHandler
    \/ InitAvailability
    \/ InitHeatingManager
    \/ InitRoomSensor
    \/ InitInflux
    \/ RunCheck

Spec == Init /\ [][Next]_vars

(***************************************************************************)
(* Properties                                                              *)
(***************************************************************************)
HasError(site) == \E i \in 1..Len(events.errors) : events.errors[i] = site

\* C1 (LoopSpec): an exception inside a monitoring cycle never ends the run
\* loop: the loop leaves Running (cleanup, stopped, an exit status) only after
\* a stop signal has been handled, however many cycles have failed, and the
\* step that logs a cycle's error leaves `running` as it is and hands control
\* back to run() for the next iteration.
C1_CycleErrorsNeverStop ==
    /\ (pc \in {"cleanup", "stopped"} \/ exitCode # Absent) => signals > 0
    /\ (loopv.failed > 0 /\ signals = 0) => running
    /\ (HasError("cycle") /\ Phase(pc) # "cleanup") => pc = "cycle_end"

\* A cycle has ended in the outer handler, no signal has arrived, and the
\* next cycle has been started.
C1_Witness ==
    /\ loopv.failed >= 1
    /\ signals = 0
    /\ running
    /\ pc = "cycle_read"
    /\ loopv.started = loopv.failed + 1

\* C2 (FairLoopSpec): a stop signal handled while a cycle is executing does
\* not cut the cycle short (the cycle still returns to run()), no cycle is
\* started after it, and the loop then runs cleanup and stops with the
\* resources released.
C2_StopIsCooperative ==
    /\ [][stopAt = "cycle" => loopv'.started = loopv.started]_vars
    /\ [](stopAt = "cycle" /\ pc \in {"cleanup", "stopped"}
            => loopv.completed = loopv.started)
    /\ [](stopAt = "cycle" /\ pc = "stopped"
            => exitCode = 0 /\ room_sensor # "bound" /\ influx_client.client # "open")
    /\ (stopAt = "cycle") ~> (pc = "stopped")

\* The signal came during the second cycle, which was completed before the stop.
C2_Witness ==
    /\ stopAt = "cycle"
    /\ pc = "stopped"
    /\ loopv.completed = 2

\* C3 (LoopSpec): after each cycle the delay is max(0, interval - elapsed),
\* never negative; with elapsed >= interval the overrun is logged and nothing
\* is slept; with elapsed < interval exactly the remainder is slept; each
\* iteration runs exactly one cycle.
C3_DelayNeverNegative ==
    LET d == loopv.cycle_duration
        rest == monitoring_interval - d
    IN  /\ loopv.started - loopv.completed \in {0, 1}
        /\ pc \in {"loop_head", "sleep", "cleanup", "stopped"} => loopv.completed = loopv.started
        /\ Phase(pc) = "cycle" => loopv.completed = loopv.started - 1
        /\ (d # Absent /\ pc \in {"loop_head", "sleep"}) =>
              /\ loopv.sleep_time >= 0
              /\ loopv.sleep_time = (IF rest > 0 THEN rest ELSE 0)
              /\ events.overrun <=> d >= monitoring_interval
              /\ d >= monitoring_interval => pc = "loop_head" /\ loopv.slept = 0
              /\ pc = "loop_head" => loopv.slept = loopv.sleep_time
              /\ pc = "sleep" => loopv.slept = 0

\* A cycle took longer than the interval; the loop is back at its head with
\* the overrun logged and nothing slept.
C3_Witness ==
    /\ pc = "loop_head"
    /\ loopv.cycle_duration # Absent
    /\ loopv.cycle_duration > monitoring_interval
    /\ events.overrun
    /\ loopv.slept = 0
    /\ loopv.completed = 1

\* C4 (Spec): with the modules importable, a loadable circuit configuration
\* and a reachable, healthy store, initialize() reports success (and run()
\* then sets running).
C4_InitSucceeds ==
    (/\ env.HEATING_AVAILABLE /\ env.INFLUXDB_AVAILABLE
     /\ env.config = "ok" /\ env.store = "up"
     /\ initResult # None)
    => initResult = "True"

C6_MalformedConfigIsFatal ==
    Malformed(env.config) =>
        /\ ~heating_manager.made
        /\ pc \notin {"init_room", "init_influx"}

\* C7 (Spec): when the process has stopped, no acquired resource is still
\* held: the room sensor handle is not bound and the store connection is not
\* open.
C7_ResourcesReleased ==
    pc = "stopped" => room_sensor # "bound" /\ influx_client.client # "open"

\* C9 (LoopSpec): when a cycle returns without having ended in the outer
\* exception handler, every alert of its status has been handed to the alert
\* gate.
C9_AlertsReachGate ==
    (pc = "cycle_end" /\ ~HasError("cycle"))
      => Len(events.gateCalls) = Len(cycle.system_status.alerts)

\* C8 (GateSpec): a should_send_alert call returns False exactly when an
\* earlier call for the same key returned True less than 30 minutes before
\* it, and True otherwise; the stored send time of a key is always the time of
\* the last call for it that returned True (so a True call records "now" and a
\* False call changes nothing).
C8_CooldownGate ==
    /\ \A i \in 1..Len(gate) :
         gate[i].result = FALSE <=>
            \E j \in 1..(i - 1) : /\ gate[j].key = gate[i].key
                                  /\ gate[j].result
                                  /\ gate[i].at - gate[j].at < 30
    /\ \A k \in AlertKeys :
         LET sends == {i \in 1..Len(gate) : gate[i].key = k /\ gate[i].result} IN
           IF sends = {} THEN last_alerts[k] = Absent
           ELSE last_alerts[k] = gate[CHOOSE i \in sends : \A j \in sends : j <= i].at

\* Three calls for one key: sent, suppressed within the window, sent again
\* once exactly 30 minutes have passed.
C8_Witness ==
    /\ Len(gate) = 3
    /\ \A i \in 1..3 : gate[i].key = "k1"
    /\ gate[1].result /\ ~gate[2].result /\ gate[3].result
    /\ gate[2].at - gate[1].at = 15
    /\ gate[3].at - gate[1].at = 30

\* Number of alerts of one type for one circuit in an alert list.
CountAlerts(alerts, type, name) ==
    Cardinality({i \in 1..Len(alerts) : alerts[i].type = type /\ alerts[i].circuit = name})

\* C10 (StatusSpec): the alert list of a finished snapshot holds, per circuit,
\* one "kritisch" (critical) alert iff the flow temperature _check_alerts read
\* is present and above 80 degrees, one "warnung" (warning) iff the difference
\* it read is present and below 3 degrees and that flow temperature is present
\* and above 30 degrees, one "fehler" (error) iff the circuit is not
\* available, and nothing else, whatever the previous call returned.
C10_AlertsFromReadings ==
    mgr.phase = "done" =>
      LET cs == heating_manager.circuits
          expected(i, type) ==
             LET f == mgr.seen[i].flow
                 d == mgr.seen[i].diff
             IN  CASE type = "kritisch" -> f # Absent /\ f > 80000
                   [] type = "warnung"  -> d # Absent /\ d < 3000 /\ f # Absent /\ f > 30000
                   [] type = "fehler"   -> cs[i].flow_sensor = None \/ cs[i].return_sensor = None
          count(i, type) == IF expected(i, type) THEN 1 ELSE 0
      IN  /\ Len(mgr.seen) = Len(cs)
          /\ \A i \in 1..Len(cs) : \A type \in {"kritisch", "warnung", "fehler"} :
                CountAlerts(mgr.alerts, type, cs[i].name) = count(i, type)
          /\ Len(mgr.alerts) =
                SumTo([i \in 1..Len(cs) |->
                         count(i, "kritisch") + count(i, "warnung") + count(i, "fehler")],
                      Len(cs))

\* The second snapshot reports overheat, low difference and sensor failure,
\* all of which the first one had reported already.
C10_Witness ==
    /\ mgr.phase = "done"
    /\ mgr.calls = 2
    /\ mgr.prev = {"kritisch", "warnung", "fehler"}
    /\ {mgr.alerts[i].type : i \in 1..Len(mgr.alerts)} = mgr.prev

\* The difference a steady sensor answer gives for a circuit: flow and return
\* rounded to hundredths, then their difference rounded to hundredths.
SteadyDiff(c, raw) ==
    IF c.flow_sensor = None \/ c.return_sensor = None
       \/ raw.flow = ReadFail \/ raw.ret = ReadFail
      THEN Absent
      ELSE Round2(Round2(raw.flow) - Round2(raw.ret))

\* C11 (MetricSpec): in the snapshot get_system_status() returns while the
\* sensors are steady, total_circuits is the number of registered circuits,
\* available_circuits the number of circuits with both sensor handles bound,
\* active_circuits the number of circuits whose difference is present and
\* above 2.0 degrees, and the alert list holds exactly one "fehler" (error)
\* alert per unavailable circuit.  For the registry {A with both handles,
\* B without its return sensor} and A at 45.0/30.0, the snapshot is total 2,
\* available 1, active 1, efficiency 100.0, with exactly one error alert, the
\* one for B.
C11_SnapshotCounts ==
    call.op = "get_system_status" =>
      LET cs == heating_manager.circuits
          st == call.result
          bound(i) == cs[i].flow_sensor # None /\ cs[i].return_sensor # None
          unavailable == {i \in 1..Len(cs) : ~bound(i)}
          errors == {j \in 1..Len(st.alerts) : st.alerts[j].type = "fehler"}
      IN  /\ st.total_circuits = Len(cs)
          /\ st.available_circuits = Len(cs) - Cardinality(unavailable)
          /\ st.active_circuits =
                Cardinality({i \in 1..Len(cs) : /\ SteadyDiff(cs[i], call.rd[i]) # Absent
                                                  /\ SteadyDiff(cs[i], call.rd[i]) > 2000})
          /\ Cardinality(errors) = Cardinality(unavailable)
          /\ \A i \in unavailable : \E j \in errors : st.alerts[j].circuit = cs[i].name
          /\ \A j \in errors : \E i \in unavailable : st.alerts[j].circuit = cs[i].name
          /\ (/\ Len(cs) = 2 /\ bound(1) /\ cs[2].return_sensor = None
              /\ call.rd[1] = [flow |-> 45003, ret |-> 30001])
             => /\ st.total_circuits = 2
                /\ st.available_circuits = 1
                /\ st.active_circuits = 1
                /\ st.system_efficiency = 100000
                /\ Cardinality(errors) = 1
                /\ \A j \in errors : st.alerts[j].circuit = cs[2].name

\* The snapshot of the registry {A complete, B without return sensor}, A at
\* 45.0/30.0.
C11_Witness ==
    /\ call.op = "get_system_status"
    /\ env.config = "ok" /\ env.present = {"fA", "rA", "fB"}
    /\ heating_manager.circuits[2].name = "B"
    /\ call.rd[1] = [flow |-> 45003, ret |-> 30001]
    /\ call.result.available_circuits = 1
    /\ call.result.active_circuits = 1
    /\ call.result.system_efficiency = 100000

\* C12 (StatusSpec): in every finished snapshot the system efficiency is
\* absent exactly when the snapshot's active_circuits is 0, and a number
\* otherwise, whatever the sensors answer to the successive reads of one
\* get_system_status() call.
C12_EfficiencyAbsentIffIdle ==
    mgr.phase = "done" =>
      (mgr.system_efficiency = Absent <=> mgr.active_circuits = 0)

\* The circuits of a direct call whose steady difference is present.
WithDifference == {i \in 1..NumCircuits :
                     SteadyDiff(heating_manager.circuits[i], call.rd[i]) # Absent}

\* The claim C13 as stated (MetricSpec): a defined efficiency is exactly
\* clamp(0, 100, (d - 5) / 10 * 67 + 33) for the average difference d of the
\* active circuits, and a single circuit with difference 15 gives 100, with
\* 5 gives 33, with -5 gives 0, with 55 gives 100.
C13_ClampAsStated ==
    call.op = "_calculate_system_efficiency" =>
      LET cs  == heating_manager.circuits
          df(i) == SteadyDiff(cs[i], call.rd[i])
          act == {i \in 1..Len(cs) : df(i) # Absent /\ df(i) > 2000}
          cnt == Cardinality(act)
          tot == SumTo([i \in 1..Len(cs) |-> IF i \in act THEN df(i) ELSE 0], Len(cs))
          n   == 67 * (tot - 5000 * cnt) + 330000 * cnt
      IN  /\ call.result # Absent =>
                /\ call.result >= 0 /\ call.result <= 100000
                /\ (n > 0 /\ n < 1000000 * cnt) => call.result * 10 * cnt = n
          /\ \A i \in WithDifference : WithDifference = {i} =>
                /\ df(i) = 15000 => call.result = 100000
                /\ df(i) = 5000  => call.result = 33000
                /\ df(i) = -5000 => call.result = 0
                /\ df(i) = 55000 => call.result = 100000

\* C13 (MetricSpec), amended: a defined efficiency is
\* clamp(0, 100, (d - 5) / 10 * 67 + 33) rounded to one decimal, d being the
\* average difference of the active circuits (difference above 2.0), and lies
\* in [0, 100]; a single circuit with difference 15 gives 100.0, with 5 gives
\* 33.0, with 55 gives 100.0; a single circuit with difference -5 is not
\* active, so the efficiency is absent, not 0.
C13_EfficiencyFormula ==
    call.op = "_calculate_system_efficiency" =>
      LET cs  == heating_manager.circuits
          df(i) == SteadyDiff(cs[i], call.rd[i])
          act == {i \in 1..Len(cs) : df(i) # Absent /\ df(i) > 2000}
          cnt == Cardinality(act)
          tot == SumTo([i \in 1..Len(cs) |-> IF i \in act THEN df(i) ELSE 0], Len(cs))
          n   == 67 * (tot - 5000 * cnt) + 330000 * cnt
          d   == 10 * cnt
          res == call.result
      IN  /\ res # Absent =>
                /\ cnt > 0
                /\ res >= 0 /\ res <= 100000
                /\ res % 100 = 0
                /\ n >= 100000 * d => res = 100000
                /\ n <= 0 => res = 0
                /\ (n > 0 /\ n < 100000 * d) =>
                      /\ 2 * (res * d - n) <= 100 * d
                      /\ 2 * (n - res * d) <= 100 * d
          /\ \A i \in WithDifference : WithDifference = {i} =>
                /\ df(i) = 15000 => res = 100000
                /\ df(i) = 5000  => res = 33000
                /\ df(i) = -5000 => res = Absent
                /\ df(i) = 55000 => res = 100000

\* One circuit with difference 2.04: the formula gives 13.1672, reported 13.2.
C13_Witness ==
    /\ call.op = "_calculate_system_efficiency"
    /\ WithDifference = {1}
    /\ SteadyDiff(heating_manager.circuits[1], call.rd[1]) = 2040
    /\ call.result = 13200

C15_ReadAllCoversRegistry ==
    call.op = "get_all_temperatures" =>
      LET cs  == heating_manager.circuits
          res == call.result
          unique == \A i, j \in 1..Len(cs) : i # j => cs[i].name # cs[j].name
          val(handle, x) == IF handle = None \/ x = ReadFail THEN Absent ELSE RoundTo(x, 10)
      IN  unique =>
            /\ Len(res) = Len(cs)
            /\ \A i \in 1..Len(cs) :
                  /\ res[i].name = cs[i].name
                  /\ res[i].flow = val(cs[i].flow_sensor, call.r1[i].flow)
                  /\ res[i].return = val(cs[i].return_sensor, call.r1[i].ret)
                  /\ res[i].difference = SteadyDiff(cs[i], call.r2[i])

\* Two circuits, the flow read of the first fails: its entry has no flow
\* temperature, the entry of the second is complete.
C15_Witness ==
    /\ call.op = "get_all_temperatures"
    /\ Len(heating_manager.circuits) = 2
    /\ heating_manager.circuits[2].name = "B"
    /\ call.r1[1].flow = ReadFail
    /\ Len(call.result) = 2
    /\ call.result[1].flow = Absent /\ call.result[1].return = 30000
    /\ call.result[2].flow = 45000 /\ call.result[2].return = 30000
    /\ call.result[2].difference = 15000

\* C16 (LoopSpec): no measurement of a cycle is made up: when the circuit
\* read step of the cycle has failed the efficiency of its status is absent,
\* and when the room sensor has no driver, fails every attempt or is not bound
\* the room temperature, humidity and dew point of the cycle are absent.
C16_NothingFabricated ==
    /\ HasError("read") => cycle.system_status.system_efficiency = Absent
    /\ (room_sensor # "bound" \/ cycle.room_driver \in {"unavailable", "failing"})
         => cycle.room_conditions = NoRoomConditions

\* C17 (LoopSpec): every failed store write of a cycle leaves an error line
\* in the log, and no failed write ends the cycle's writing: the per-circuit
\* step attempts one write for every circuit with both readings, whatever the
\* earlier ones returned, the status write is attempted after it, and the
\* room write is attempted whenever the room temperature is present.
C17_WriteFailuresIsolated ==
    /\ [](\A i \in 1..Len(events.writes) :
             events.writes[i].result # "True" => events.writes[i].logged)
    /\ [][(pc = "cycle_persist" /\ pc' = "cycle_persist_status") =>
             Len(events'.writes) =
               Cardinality({i \in 1..Len(cycle.all_temps) :
                              /\ cycle.all_temps[i].flow # Absent
                              /\ cycle.all_temps[i].return # Absent})]_vars
    /\ [][(pc = "cycle_persist_status" /\ pc' # pc) =>
             /\ pc' = "cycle_room"
             /\ Len(events'.writes) = Len(events.writes) + 1
             /\ events'.writes[Len(events'.writes)].method = StatusWriteMethod]_vars
    /\ [][(pc = "cycle_room" /\ pc' # pc /\ cycle'.room_conditions.temperature # Absent) =>
             /\ Len(events'.writes) = Len(events.writes) + 1
             /\ events'.writes[Len(events'.writes)].method = RoomWriteMethod]_vars

\* C18 (LoopSpec): every per-circuit store call of a cycle (one is made for
\* each circuit with both readings present) is carried out by a write method
\* of the store client, and it returns True unless the client has no
\* write_api or the write itself raised (and was logged).
C18_CircuitWritesStored ==
    \A i \in 1..Len(events.writes) :
       LET w == events.writes[i] IN
         w.method = CircuitWriteMethod =>
           /\ w.result \in {"True", "False"}
           /\ (influx_client.write_api /\ ~w.logged) => w.result = "True"

\* The process has stopped because a mandatory collaborator was missing or
\* failed at startup (main.py:311-314, 253-254).
StartupFailed ==
    /\ pc = "stopped"
    /\ \/ ~env.HEATING_AVAILABLE \/ ~env.INFLUXDB_AVAILABLE
       \/ initResult = "False"

\* C19 (Spec): the exit status of a startup failure of a mandatory
\* collaborator is non-zero and differs from the exit status main() gives a
\* generic runtime failure.
C19_DistinctStartupStatus ==
    StartupFailed => exitCode # 0 /\ exitCode # RuntimeFailureStatus

RECURSIVE AttemptedTransports(_, _)
AttemptedTransports(attempts, i) ==
    IF i > Len(attempts) THEN << >>
    ELSE <<attempts[i].transport>> \o AttemptedTransports(attempts, i + 1)

\* C21: when an alert passes the gate, send_alert attempts each configured
\* transport exactly once (email, telegram, discord, whatever the earlier ones
\* did), and no exception of a transport leaves send_alert; a suppressed
\* alert attempts none.
C21_TransportsIndependent ==
    call.op = "send_alert" =>
        /\ ~call.raised
        /\ call.passed =>
             AttemptedTransports(call.attempts, 1) = SelectSeq(Transports, LAMBDA tr : env[tr])
        /\ ~call.passed => call.attempts = << >>

\* A passed alert with all three transports configured whose first transport
\* failed and whose last one delivered.
C21_Witness ==
    /\ call.op = "send_alert"
    /\ call.passed
    /\ Len(call.attempts) = 3
    /\ ~call.attempts[1].result
    /\ call.attempts[3].result
    /\ call.sent_count >= 1

\* The rating get_efficiency_rating gives to a difference.
RatingOfDifference(diff) ==
    IF diff = Absent THEN None
    ELSE IF diff >= 15000 THEN "sehr_gut"
    ELSE IF diff >= 10000 THEN "gut"
    ELSE IF diff >= 5000 THEN "befriedigend"
    ELSE "schlecht"

\* C22: every per-circuit status is consistent with one instant: its
\* temperature_difference is flow - return of the flow and return it reports
\* (absent when one of them is), its is_active flag is "difference present and
\* > 2.0" of the difference it reports, and its efficiency_rating is the
\* rating of that difference, also when the sensors change or fail between
\* the reads.
C22_StatusOfOneInstant ==
    mgr.last_status # NoCircuitStatus =>
        LET st == mgr.last_status IN
          /\ st.temperature_difference =
               (IF st.flow_temperature # Absent /\ st.return_temperature # Absent
                  THEN Round2(st.flow_temperature - st.return_temperature) ELSE Absent)
          /\ st.is_active = (st.temperature_difference # Absent /\ st.temperature_difference > 2000)
          /\ st.efficiency_rating = RatingOfDifference(st.temperature_difference)

\* C23 as stated (GateSpec): the stored time of a key is set to "now" by
\* every should_send_alert call for it, suppressed or not, so it is always the
\* time of the last call for the key; no entry is ever removed.
C23_RefreshedOnEveryCall ==
    \A k \in AlertKeys :
      LET calls == {i \in 1..Len(gate) : gate[i].key = k} IN
        IF calls = {} THEN last_alerts[k] = Absent
        ELSE last_alerts[k] = gate[CHOOSE i \in calls : \A j \in calls : j <= i].at

\* C23 as the code has it (GateSpec): a should_send_alert call that returns
\* True sets the stored time of its key to "now" and touches no other entry; a
\* call that returns False (cooldown active) changes nothing; an entry once
\* made is never removed.
C23_RefreshedOnlyWhenSent ==
    [][Len(gate') = Len(gate) + 1 =>
         LET c == gate'[Len(gate')] IN
           /\ c.result  => last_alerts'[c.key] = c.at
           /\ ~c.result => last_alerts'[c.key] = last_alerts[c.key]
           /\ \A k \in AlertKeys \ {c.key} : last_alerts'[k] = last_alerts[k]
           /\ \A k \in AlertKeys : last_alerts[k] # Absent => last_alerts'[k] # Absent]_vars

\* A key sent at 0 and asked for again at 15 keeps the time 0, and sending
\* another key afterwards leaves that entry in the map.
C23_Witness ==
    /\ Len(gate) = 3
    /\ gate[1] = [key |-> "k1", at |-> 0, result |-> TRUE]
    /\ gate[2] = [key |-> "k1", at |-> 15, result |-> FALSE]
    /\ gate[3].key = "k2" /\ gate[3].result
    /\ last_alerts["k1"] = 0
    /\ last_alerts["k2"] = gate[3].at

\* C24 (NotifySpec): distinct (type, circuit, message) tuples never suppress
\* each other: a send_alert call is suppressed only if an earlier call for the
\* very same tuple passed the gate less than 30 minutes before, and a call
\* with such a predecessor is suppressed.
C24_KeyInjective ==
    \A i \in 1..Len(gate) :
      gate[i].result = FALSE <=>
         \E j \in 1..(i - 1) : /\ gate[j].alert = gate[i].alert
                               /\ gate[j].result
                               /\ gate[i].at - gate[j].at < AlertCooldown

\* C25 (MetricSpec): write_system_status hands points to the store exactly
\* when the client has a write_api, and what it hands over is one status point
\* followed by either one active=1 record per alert, in the order of the
\* alert list and carrying that alert's type and message (list given and
\* non-empty), or exactly one active=0 marker (list empty or not given);
\* never both kinds and never neither.
C25_StatusWritePoints ==
    call.op = "write_system_status" =>
      /\ call.attempted = call.write_api
      /\ call.attempted =>
           LET P == call.points
               alerts == call.status.alerts
               statusPts == {i \in 1..Len(P) : P[i].measurement = "heating_system_status"}
               alertPts == {i \in 1..Len(P) : P[i].measurement = "heating_alerts" /\ P[i].active = 1}
               markers == {i \in 1..Len(P) : P[i].measurement = "heating_alerts" /\ P[i].active = 0}
           IN /\ statusPts = {1}
              /\ statusPts \cup alertPts \cup markers = 1..Len(P)
              /\ IF call.given /\ Len(alerts) > 0
                   THEN /\ markers = {}
                        /\ Len(P) = 1 + Len(alerts)
                        /\ \A i \in 1..Len(alerts) :
                             /\ P[i + 1].type = alerts[i].type
                             /\ P[i + 1].message = alerts[i].message
                   ELSE /\ alertPts = {}
                        /\ Cardinality(markers) = 1

\* A status write that was accepted and carried two alert records.
C25_Witness ==
    /\ call.op = "write_system_status"
    /\ call.attempted /\ call.result
    /\ call.given
    /\ Len(call.status.alerts) = 2
    /\ Len(call.points) = 3

\* C26 (LoopSpec): a stop request is never lost: once the first request has
\* been handled no further cycle is begun, in particular none at all when the
\* request arrived during initialization, before the first cycle.
C26_StopRequestNeverLost ==
    [][stopAt # None => loopv'.started = loopv.started]_vars

\* C27 (LoopSpec): a cycle whose snapshot has no active circuit (system
\* efficiency undefined) completes normally: it ends without a cycle error,
\* its status line is produced and every alert of its snapshot is reported.
C27_IdleCycleCompletes ==
    (pc = "cycle_end" /\ cycle.system_status.system_efficiency = Absent) =>
        /\ ~HasError("cycle")
        /\ events.statusLine
        /\ events.alertLines = cycle.system_status.alerts

\* C28 as stated (NotifySpec): for one alert condition (same type on the same
\* circuit) at most one notification is delivered per 30-minute window, also
\* when the value in the message changes between the occurrences.
C28_OnePerWindowPerCondition ==
    \A j \in 1..Len(gate) : \A i \in 1..(j - 1) :
      (/\ gate[i].alert.type = gate[j].alert.type
       /\ gate[i].alert.circuit = gate[j].alert.circuit
       /\ gate[i].result /\ gate[i].delivered
       /\ gate[j].result /\ gate[j].delivered)
        => gate[j].at - gate[i].at >= 30

\* C28 as the code has it (NotifySpec): the window belongs to the alert key,
\* which contains the message text: a send_alert call is suppressed exactly
\* when a call with the same key passed less than 30 minutes before, so a
\* message repeated unchanged is notified at most once per window and again
\* once 30 minutes have passed, while the same condition reported with another
\* value in its message has another key and is notified at once.
C28_OnePerWindowPerMessage ==
    /\ \A j \in 1..Len(gate) :
         gate[j].result <=>
            ~\E i \in 1..(j - 1) : /\ gate[i].key = gate[j].key
                                   /\ gate[i].result
                                   /\ gate[j].at - gate[i].at < 30
    /\ \A a \in NotifyAlerts, b \in NotifyAlerts :
         (a.type = b.type /\ a.circuit = b.circuit /\ a.message # b.message)
            => AlertKey(a) # AlertKey(b)

\* The overheat alert of circuit Bad is delivered with the reading 85.0 and,
\* 15 minutes later, delivered again with the reading 86.0.
C28_Witness ==
    /\ Len(gate) = 2
    /\ gate[1].alert = [type |-> "kritisch", circuit |-> "Bad", message |-> "Ueberhitzung: Vorlauf 85.0"]
    /\ gate[2].alert = [type |-> "kritisch", circuit |-> "Bad", message |-> "Ueberhitzung: Vorlauf 86.0"]
    /\ gate[1].result /\ gate[1].delivered
    /\ gate[2].result /\ gate[2].delivered
    /\ gate[2].at - gate[1].at = 15

\* C29 as stated (NotifySpec): a key is in cooldown only after a delivery: a
\* send_alert call is suppressed only if an earlier call with the same key, less
\* than 30 minutes before, was delivered by at least one transport.
C29_CooldownOnlyAfterDelivery ==
    \A j \in 1..Len(gate) :
      ~gate[j].result =>
         \E i \in 1..(j - 1) : /\ gate[i].key = gate[j].key
                               /\ gate[i].result /\ gate[i].delivered
                               /\ gate[j].at - gate[i].at < 30

\* C29 as the code has it (NotifySpec): a key enters cooldown when its alert
\* passes the gate, before any transport is tried: every call that passed has
\* its key stored, and after a call that passed without any delivery (every
\* transport failed or none is configured) a call with the same key less than
\* 30 minutes later is suppressed all the same.
C29_CooldownOnGatePass ==
    /\ \A i \in 1..Len(gate) :
         gate[i].result => last_alerts[gate[i].key] # Absent /\ last_alerts[gate[i].key] >= gate[i].at
    /\ \A j \in 1..Len(gate) : \A i \in 1..(j - 1) :
         (/\ gate[i].key = gate[j].key
          /\ gate[i].result /\ ~gate[i].delivered
          /\ gate[j].at - gate[i].at < 30)
           => ~gate[j].result /\ ~gate[j].delivered

\* All three transports are configured and fail on an alert that passed the
\* gate; the same alert 15 minutes later is suppressed.
C29_Witness ==
    /\ env.email /\ env.telegram /\ env.discord
    /\ Len(gate) = 2
    /\ gate[1].result /\ ~gate[1].delivered
    /\ gate[2].alert = gate[1].alert
    /\ gate[2].at - gate[1].at = 15
    /\ ~gate[2].result

\* C30 as stated (AlertCallSpec): process_system_alerts hands every alert of
\* type critical, warning or error to send_alert.
C30_ForwardsErrorsToo ==
    call.op = "process_system_alerts" =>
      \A i \in 1..Len(call.alerts) :
        AlertTuple(call.alerts[i]).type \in {"kritisch", "critical", "warnung", "warning", "fehler", "error"}
          => \E n \in 1..Len(call.calls) : call.calls[n].alert = AlertTuple(call.alerts[i])

\* C30 as the code has it (AlertCallSpec): the send_alert calls made by
\* process_system_alerts are, in order, exactly the alerts of the list whose
\* type is critical or warning (a missing circuit replaced by "system");
\* alerts of type error are passed over and reach neither gate nor transport.
C30_ForwardsCriticalAndWarning ==
    call.op = "process_system_alerts" =>
      LET fw == SelectSeq(call.alerts,
                          LAMBDA a : AlertGet(a, "type", "info") \in {"kritisch", "critical", "warnung", "warning"})
      IN /\ Len(call.calls) = Len(fw)
         /\ \A n \in 1..Len(fw) : call.calls[n].alert = AlertTuple(fw[n])
         /\ \A n \in 1..Len(call.calls) : call.calls[n].alert.type \notin {"fehler", "error"}

\* A list holding a sensor-failure alert and an overheat alert: only the
\* overheat alert is handed to send_alert.
C30_Witness ==
    /\ call.op = "process_system_alerts"
    /\ Len(call.alerts) = 2
    /\ call.alerts[1].type = "fehler"
    /\ call.alerts[2].type = "kritisch"
    /\ Len(call.calls) = 1
    /\ call.calls[1].alert.type = "kritisch"
    /\ call.calls[1].result
====
